---------------------------- MODULE Spec2Model ----------------------------
(***************************************************************************)
(* Model of tools/scripts/generate_assets.py: the asset generation         *)
(* pipeline (AssetGenerator, RateLimiter).                                 *)
(*                                                                         *)
(*   SpecRL    one shared RateLimiter(Q), concurrent callers of wait() and *)
(*             the clock                                                   *)
(*   Spec      one generate_asset_batch run, from the tasks' creation to   *)
(*             the session report, within one reading of the clock         *)
(*   SpecPoll  a batch of one queued (midjourney) job, with the history of *)
(*             its status polls                                            *)
(*   SpecId    calls of _generate_asset_id, and the clock                  *)
(*   SpecClock a batch while the clock runs, with quota 1 or the quotas of *)
(*             CONFIG, under fair scheduling                               *)
(*                                                                         *)
(* A task's action runs from one suspension point (await) to the next.     *)
(* What a provider, the disk and the clock do is chosen by the environment.*)
(***************************************************************************)
EXTENDS Integers, Sequences, FiniteSets, TLC

\* ---- bounds of the model
MaxQuota == 2
RLCallers == 3
RLTicks == 3
MaxTasks == 2
MaxIdCalls == 2
IdTicks == 1
MaxClockTasks == 2
ClockTicks == 1

\* ---- program constants
Window == 60

\* The polling loop running once more than range(30).
MaxPollsOneMore == 30 + 1

MaxPolls == 30

TickStep == Window \div 2

Services == {"nanobanana", "stability", "midjourney", "elevenlabs"}

\* CONFIG['services'][s]['rate_limit']
rate_limit(s) ==
  CASE s = "nanobanana" -> 10
    [] s = "stability" -> 150
    [] s = "midjourney" -> 5
    [] s = "elevenlabs" -> 20

\* The limiter the callers of SpecRL share.
RLService == "midjourney"

\* ---- requests (AssetRequest, lines 58-75)

Types == {"2d", "3d", "audio", "hologram"}

Categories == {"sprite", "character", "background", "environment", "ui", "icon", "sfx"}

Request(p, ty, c, st) == [prompt |-> p, type |-> ty, category |-> c, style |-> st]

\* The requests a batch is made of: one per route, per unimplemented type,
\* and one of a type that is none of '2d', '3d', 'audio'.
BatchRequests ==
  { Request("neon alley", "2d", "sprite", "cyberpunk"),
    Request("neon alley", "2d", "background", "cyberpunk"),
    Request("neon alley", "2d", "ui", "cyberpunk"),
    Request("neon alley", "2d", "sfx", "cyberpunk"),
    Request("neon alley", "3d", "sprite", "cyberpunk"),
    Request("neon alley", "audio", "sfx", "cyberpunk"),
    Request("neon alley", "hologram", "ui", "cyberpunk") }

\* Every (type, category) pair, for a batch of one request.
AllRequests ==
  { Request("neon alley", ty, c, "cyberpunk") : ty \in Types, c \in Categories }

\* The byte strings a provider returns.
Data == { <<>>, <<137, 80>> }

\* Python's None, and an exception that leaves a coroutine.
None == [kind |-> "None"]

Exc(what) == [kind |-> "exception", what |-> what]

IsAsset(r) == r.kind = "asset"

\* CONFIG['output_dirs'], lines 45-50
output_dirs(k) ==
  CASE k = "2d" -> "assets/generated/2d"
    [] k = "3d" -> "assets/generated/3d"
    [] k = "audio" -> "assets/generated/audio"
    [] k = "metadata" -> "assets/generated/metadata"

\* What the environment answers to a provider's POST, to a status poll, to
\* the download of a finished image, and what the disk does on a save.
PostOutcomes(service) ==
  {"ok", "http_error", "exception"}
    \cup (IF service = "stability" THEN {"no_artifacts"} ELSE {})

PollOutcomes == {"completed", "failed", "pending", "http_error", "exception"}

ImageOutcomes == {"ok", "http_error", "exception"}

DiskOutcomes == {"ok", "artifact_write_fails", "metadata_write_fails"}

VARIABLES
  now,                  \* time.time(), in seconds
  requests_per_minute,  \* RateLimiter.requests_per_minute, per service
  rl_requests,          \* RateLimiter.requests, per service
  cpc,                  \* SpecRL: each caller's position in wait()
  c_now,                \* SpecRL: the local variable now of each call of wait()
  c_wake,               \* SpecRL: when a suspended caller's sleep ends
  admitted,             \* SpecRL: the times at which wait() returned
  requests,             \* the argument of generate_asset_batch
  bpc,                  \* position of generate_asset_batch / main
  tpc,                  \* position of each generate_single_asset task
  start_time,           \* start_time of each task
  wake,                 \* when the sleep of a task suspended in wait() ends
  attempts,             \* iterations of the polling loop each task has begun
  tresult,              \* what each task returned (or raised)
  successful_assets,    \* the list generate_asset_batch returns
  generated_assets,     \* AssetGenerator.generated_assets
  report,               \* the report save_generation_report wrote
  files,                \* artifact files on disk: path and content
  sidecars,             \* metadata files on disk: path and content
  tservice,             \* history: the provider method each task entered
  provided,             \* history: the bytes each task passed to _save_asset
  fate,                 \* history: how the environment settled each task
  polls,                \* SpecPoll, history: status polls each task has issued
  first_status,         \* SpecPoll, history: what each task's first poll said
  last_status,          \* SpecPoll, history: what each task's latest poll said
  id_calls              \* SpecId: the calls of _generate_asset_id made so far

rlVars == <<requests_per_minute, rl_requests>>

callerVars == <<cpc, c_now, c_wake, admitted>>

taskVars == <<tpc, start_time, wake, attempts, tresult, tservice, provided, fate>>

pollHistory == <<polls, first_status, last_status>>

diskVars == <<files, sidecars>>

batchVars == <<requests, bpc, successful_assets, generated_assets, report>>

idVars == <<id_calls>>

vars == <<now, rlVars, callerVars, taskVars, pollHistory, diskVars, batchVars, idVars>>

Callers == 1..RLCallers

Tasks == DOMAIN requests

\* ---- RateLimiter.wait(), lines 444-457

\* self.requests = [req_time for req_time in self.requests if now - req_time < 60]
Prune(reqs, t) == SelectSeq(reqs, LAMBDA r : t - r < Window)

\* wait_time = 60 - (now - self.requests[0]), of a pruned, non-empty list
WaitTime(reqs, t) == Window - (t - reqs[1])

\* Whether wait() entered at time t suspends the caller.
MustSleep(quota, reqs, t) ==
  /\ Len(Prune(reqs, t)) >= quota
  /\ Len(Prune(reqs, t)) > 0
  /\ WaitTime(Prune(reqs, t), t) > 0

\* Whether wait() entered at time t raises IndexError: the length test of
\* line 451 passes on an empty list, and line 452 reads self.requests[0].
RaisesIndexError(quota, reqs, t) ==
  /\ Len(Prune(reqs, t)) >= quota
  /\ Prune(reqs, t) = <<>>

\* A caller enters wait(): prune, then either append now and return, or
\* start the sleep, or leave with the IndexError of line 452.
Wait(c) ==
  /\ cpc[c] = "idle"
  /\ LET reqs == Prune(rl_requests[RLService], now)
     IN IF RaisesIndexError(requests_per_minute[RLService], rl_requests[RLService], now)
        THEN /\ rl_requests' = [rl_requests EXCEPT ![RLService] = reqs]
             /\ cpc' = [cpc EXCEPT ![c] = "raised"]
             /\ UNCHANGED <<c_wake, admitted>>
        ELSE IF MustSleep(requests_per_minute[RLService], rl_requests[RLService], now)
        THEN /\ rl_requests' = [rl_requests EXCEPT ![RLService] = reqs]
             /\ cpc' = [cpc EXCEPT ![c] = "sleeping"]
             /\ c_wake' = [c_wake EXCEPT ![c] = now + WaitTime(reqs, now)]
             /\ UNCHANGED admitted
        ELSE /\ rl_requests' = [rl_requests EXCEPT ![RLService] = Append(reqs, now)]
             /\ cpc' = [cpc EXCEPT ![c] = "admitted"]
             /\ admitted' = Append(admitted, now)
             /\ UNCHANGED c_wake
  /\ c_now' = [c_now EXCEPT ![c] = now]
  /\ UNCHANGED <<idVars, now, requests_per_minute, taskVars, pollHistory, diskVars, batchVars>>

\* The sleep of a suspended caller ends: self.requests.append(now) with the
\* now read on entry, and wait() returns.
WaitResume(c) ==
  /\ cpc[c] = "sleeping"
  /\ now >= c_wake[c]
  /\ rl_requests' = [rl_requests EXCEPT ![RLService] = Append(@, c_now[c])]
  /\ cpc' = [cpc EXCEPT ![c] = "admitted"]
  /\ admitted' = Append(admitted, now)
  /\ UNCHANGED <<idVars, now, requests_per_minute, c_now, c_wake, taskVars, pollHistory,
                 diskVars, batchVars>>

\* Someone is suspended in the asyncio.sleep of wait() and its time has not
\* come yet.
SomeoneSleeps ==
  \/ \E c \in DOMAIN cpc : cpc[c] = "sleeping" /\ c_wake[c] > now
  \/ \E t \in DOMAIN tpc : tpc[t] = "rl_sleep" /\ wake[t] > now

\* Real time passes: up to limit, and as long as a sleep has to end.
Tick(limit) ==
  /\ now < limit \/ SomeoneSleeps
  /\ now' = now + TickStep
  /\ UNCHANGED <<idVars, rlVars, callerVars, taskVars, pollHistory, diskVars, batchVars>>

\* ---- the state after construction

\* No batch: the part of the state SpecRL leaves alone.
NoBatch ==
  /\ requests = <<>>
  /\ bpc = "constructed"
  /\ tpc = <<>>
  /\ start_time = <<>>
  /\ wake = <<>>
  /\ attempts = <<>>
  /\ tresult = <<>>
  /\ tservice = <<>>
  /\ provided = <<>>
  /\ fate = <<>>
  /\ polls = <<>>
  /\ first_status = <<>>
  /\ last_status = <<>>
  /\ successful_assets = <<>>
  /\ generated_assets = <<>>
  /\ report = <<>>
  /\ files = {}
  /\ sidecars = {}
  /\ id_calls = <<>>

\* No caller of wait() besides the batch's tasks.
NoCallers ==
  /\ cpc = <<>>
  /\ c_now = <<>>
  /\ c_wake = <<>>
  /\ admitted = <<>>

InitRL ==
  /\ now = 0
  /\ \E q \in 0..MaxQuota : requests_per_minute = [s \in Services |-> q]
  /\ rl_requests = [s \in Services |-> <<>>]
  /\ cpc = [c \in Callers |-> "idle"]
  /\ c_now = [c \in Callers |-> 0]
  /\ c_wake = [c \in Callers |-> 0]
  /\ admitted = <<>>
  /\ NoBatch

NextRL ==
  \/ \E c \in Callers : Wait(c)
  \/ \E c \in Callers : WaitResume(c)
  \/ Tick(RLTicks * TickStep)

SpecRL == InitRL /\ [][NextRL]_vars

\* ---- AssetGenerator: routing

\* Route2d with the fallback sent to the fast provider.
Route2dFallbackFast(category) ==
  IF category \in {"sprite", "character"} THEN "nanobanana"
  ELSE IF category \in {"background", "environment"} THEN "stability"
  ELSE IF category \in {"ui", "icon"} THEN "midjourney"
  ELSE "nanobanana"

\* _generate_2d_asset, lines 163-170: the provider of a '2d' request.
Route2d(category) ==
  IF category \in {"sprite", "character"} THEN "nanobanana"
  ELSE IF category \in {"background", "environment"} THEN "stability"
  ELSE IF category \in {"ui", "icon"} THEN "midjourney"
  ELSE "stability"

\* ProviderOf with an 'audio' request taking the '2d' branch.
ProviderOfAudioAs2d(request) ==
  IF request.type \in {"2d", "audio"} THEN Route2d(request.category)
  ELSE IF request.type = "3d" THEN "none"
  ELSE "unknown"

\* generate_single_asset, lines 139-146, with the limiter each branch waits
\* on: "none" when the branch calls no provider method that acquires one,
\* "unknown" when the type is none of the three.
ProviderOf(request) ==
  IF request.type = "2d" THEN Route2d(request.category)
  ELSE IF request.type = "3d" THEN "none"
  ELSE IF request.type = "audio" THEN "elevenlabs"
  ELSE "unknown"

\* ---- AssetGenerator: saving

\* content = f"{prompt}-{type}-{category}-{style}", line 417
IdContent(request) ==
  request.prompt \o "-" \o request.type \o "-" \o request.category \o "-" \o request.style

\* Md5Short leaving the style out of the hashed content.
Md5ShortNoStyle(request) ==
  <<"md5", request.prompt \o "-" \o request.type \o "-" \o request.category>>

\* hashlib.md5(content.encode()).hexdigest()[:8], as a digest term of the
\* content string: equal contents have equal digests, and no two contents
\* collide.
Md5Short(request) == <<"md5", IdContent(request)>>

\* hashlib.sha256(data).hexdigest(), as a digest term.
Sha256(data) == <<"sha256", data>>

\* _generate_asset_id, lines 415-421, called at time t (whole seconds):
\* f"{type}_{category}_{short_hash}_{timestamp}".  The digest (8 hex digits)
\* and the timestamp (decimal digits) hold no "_", so the string is told by
\* the text before them, the digest and the timestamp.
generate_asset_id(request, t) ==
  <<request.type \o "_" \o request.category \o "_", Md5Short(request), "_", t>>

Path(dir, name, ext) == [dir |-> dir, name |-> name, ext |-> ext]

\* open(path, 'w'): the file at path holds exactly content afterwards.
WriteFile(fs, path, content) ==
  {f \in fs : f.path # path} \cup {[path |-> path, content |-> content]}

Exists(fs, path) == \E f \in fs : f.path = path

ReadFile(fs, path) == (CHOOSE f \in fs : f.path = path).content

\* save_asset with the digest taken before any byte is fed to it.
save_asset_digest_of_nothing(request, data, format, service, disk, t, fs, sc) ==
  LET asset_id == generate_asset_id(request, t)
      file_path == Path(output_dirs(request.type), asset_id, format)
      checksum == Sha256(<<>>)
      metadata == [generation_service |-> service,
                   original_request |-> request,
                   file_format |-> format,
                   file_size |-> Len(data),
                   checksum |-> checksum,
                   created_at |-> t,
                   version |-> "1.0"]
      metadata_path == Path(output_dirs("metadata"), asset_id, "json")
  IN IF disk = "artifact_write_fails"
     THEN [outcome |-> Exc("OSError"), files |-> fs, sidecars |-> sc]
     ELSE IF disk = "metadata_write_fails"
     THEN [outcome |-> Exc("OSError"),
           files |-> WriteFile(fs, file_path, data), sidecars |-> sc]
     ELSE [outcome |-> [kind |-> "asset",
                        id |-> asset_id,
                        request |-> request,
                        file_path |-> file_path,
                        service_used |-> service,
                        generation_time |-> 0,
                        file_size |-> Len(data),
                        checksum |-> checksum,
                        metadata |-> metadata,
                        created_at |-> t],
           files |-> WriteFile(fs, file_path, data),
           sidecars |-> WriteFile(sc, metadata_path, metadata)]

\* save_asset going on when the write of the metadata file fails: the asset is
\* returned all the same.
save_asset_sidecar_optional(request, data, format, service, disk, t, fs, sc) ==
  LET asset_id == generate_asset_id(request, t)
      file_path == Path(output_dirs(request.type), asset_id, format)
      checksum == Sha256(data)
      metadata == [generation_service |-> service,
                   original_request |-> request,
                   file_format |-> format,
                   file_size |-> Len(data),
                   checksum |-> checksum,
                   created_at |-> t,
                   version |-> "1.0"]
      metadata_path == Path(output_dirs("metadata"), asset_id, "json")
  IN IF disk = "artifact_write_fails"
     THEN [outcome |-> Exc("OSError"), files |-> fs, sidecars |-> sc]
     ELSE [outcome |-> [kind |-> "asset",
                        id |-> asset_id,
                        request |-> request,
                        file_path |-> file_path,
                        service_used |-> service,
                        generation_time |-> 0,
                        file_size |-> Len(data),
                        checksum |-> checksum,
                        metadata |-> metadata,
                        created_at |-> t],
           files |-> WriteFile(fs, file_path, data),
           sidecars |-> IF disk = "metadata_write_fails" THEN sc
                        ELSE WriteFile(sc, metadata_path, metadata)]

\* _save_asset, lines 364-413, at time t on a disk holding fs and sc; disk
\* says which of its writes fails, if any.  The result is what it returns or
\* raises, and the disk afterwards.
save_asset(request, data, format, service, disk, t, fs, sc) ==
  LET asset_id == generate_asset_id(request, t)
      file_path == Path(output_dirs(request.type), asset_id, format)
      checksum == Sha256(data)
      metadata == [generation_service |-> service,
                   original_request |-> request,
                   file_format |-> format,
                   file_size |-> Len(data),
                   checksum |-> checksum,
                   created_at |-> t,
                   version |-> "1.0"]
      metadata_path == Path(output_dirs("metadata"), asset_id, "json")
  IN IF disk = "artifact_write_fails"
     THEN [outcome |-> Exc("OSError"), files |-> fs, sidecars |-> sc]
     ELSE IF disk = "metadata_write_fails"
     THEN [outcome |-> Exc("OSError"),
           files |-> WriteFile(fs, file_path, data), sidecars |-> sc]
     ELSE [outcome |-> [kind |-> "asset",
                        id |-> asset_id,
                        request |-> request,
                        file_path |-> file_path,
                        service_used |-> service,
                        generation_time |-> 0,
                        file_size |-> Len(data),
                        checksum |-> checksum,
                        metadata |-> metadata,
                        created_at |-> t],
           files |-> WriteFile(fs, file_path, data),
           sidecars |-> WriteFile(sc, metadata_path, metadata)]

\* ---- AssetGenerator: one task

\* The except clause of a provider method (lines 205-208, 249-252, 289-292):
\* an exception raised inside its try block makes it return None.
ProviderCatch(outcome) ==
  IF outcome.kind = "exception" THEN None ELSE outcome

\* generate_single_asset_result without the except clause of lines 154-155.
SingleAssetResultUncaught(outcome, elapsed) ==
  IF IsAsset(outcome) THEN [outcome EXCEPT !.generation_time = elapsed]
  ELSE outcome

\* generate_single_asset_result returning the asset as _save_asset built it.
SingleAssetResultAsSaved(outcome, elapsed) ==
  IF outcome.kind = "exception" THEN None
  ELSE IF IsAsset(outcome) THEN outcome
  ELSE None

\* generate_single_asset, lines 148-157: an asset gets its generation_time
\* and is returned; None, or an exception, makes the task return None.
generate_single_asset_result(outcome, elapsed) ==
  IF outcome.kind = "exception" THEN None
  ELSE IF IsAsset(outcome) THEN [outcome EXCEPT !.generation_time = elapsed]
  ELSE None

\* RateLimiter.wait() entered at time t by a task: the list afterwards.
Acquire(quota, reqs, t) ==
  IF MustSleep(quota, reqs, t) THEN Prune(reqs, t) ELSE Append(Prune(reqs, t), t)

\* Task t, started at time started, returns.
Return(t, outcome, how, started) ==
  /\ tresult' = [tresult EXCEPT
                   ![t] = generate_single_asset_result(outcome, now - started)]
  /\ tpc' = [tpc EXCEPT ![t] = "done"]
  /\ fate' = [fate EXCEPT ![t] = how]

\* Task t calls _save_asset on data and returns what its provider method returns.
SaveAndReturn(t, data, disk) ==
  LET sv == save_asset(requests[t], data, "png", tservice[t], disk, now, files, sidecars)
  IN /\ files' = sv.files
     /\ sidecars' = sv.sidecars
     /\ provided' = [provided EXCEPT ![t] = <<data>>]
     /\ Return(t, ProviderCatch(sv.outcome),
               CASE disk = "ok" -> "success"
                 [] disk = "metadata_write_fails" -> "metadata_failed"
                 [] OTHER -> "disk_failed",
               start_time[t])

\* generate_single_asset from its start to its first suspension: the type
\* dispatch, the route, the limiter and the provider's POST being sent.
\* With the quotas of CONFIG (5 at least) and fewer requests than that, no
\* limiter is full, so no task of a batch is suspended in wait() ("rl_sleep");
\* with a quota of 1 a task is, and ResumeTask takes it on.
StartTask(t) ==
  /\ bpc = "gathering"
  /\ tpc[t] = "created"
  /\ start_time' = [start_time EXCEPT ![t] = now]
  /\ LET svc == ProviderOf(requests[t])
     IN /\ tservice' = [tservice EXCEPT ![t] = svc]
        /\ IF svc \in Services
           THEN rl_requests' = [rl_requests EXCEPT
                  ![svc] = Acquire(requests_per_minute[svc], @, now)]
           ELSE UNCHANGED rl_requests
        /\ IF svc \in Services
              /\ MustSleep(requests_per_minute[svc], rl_requests[svc], now)
           THEN /\ tpc' = [tpc EXCEPT ![t] = "rl_sleep"]
                /\ wake' = [wake EXCEPT
                     ![t] = now + WaitTime(Prune(rl_requests[svc], now), now)]
                /\ UNCHANGED <<tresult, fate>>
           ELSE /\ UNCHANGED wake
                /\ CASE svc = "unknown" -> Return(t, Exc("ValueError"), "unknown_type", now)
                     [] svc \in {"none", "elevenlabs"} -> Return(t, None, "skipped", now)
                     [] OTHER -> /\ tpc' = [tpc EXCEPT ![t] = "post"]
                                 /\ UNCHANGED <<tresult, fate>>
  /\ UNCHANGED <<idVars, now, requests_per_minute, callerVars, attempts, provided,
                 pollHistory, diskVars, batchVars>>

\* ResumeTask for a wait() that, after its sleep, tests the list it pruned on
\* entry once more, finds it as full as before and sleeps again.
ResumeTaskSleepsAgain(t) ==
  /\ tpc[t] = "rl_sleep"
  /\ now >= wake[t]
  /\ UNCHANGED vars

\* The sleep of a task suspended in wait() ends: line 457 appends the now read
\* on entry (the task's start_time, read in the same step), wait() returns
\* and the provider method goes on, to its POST or, for audio, to its return.
ResumeTask(t) ==
  /\ tpc[t] = "rl_sleep"
  /\ now >= wake[t]
  /\ rl_requests' = [rl_requests EXCEPT ![tservice[t]] = Append(@, start_time[t])]
  /\ IF tservice[t] = "elevenlabs"
     THEN Return(t, None, "skipped", start_time[t])
     ELSE /\ tpc' = [tpc EXCEPT ![t] = "post"]
          /\ UNCHANGED <<tresult, fate>>
  /\ UNCHANGED <<idVars, now, requests_per_minute, callerVars, start_time, wake, attempts,
                 tservice, provided, pollHistory, diskVars, batchVars>>

\* The response to the provider's POST arrives (lines 192-208, 235-252,
\* 271-292): a 200 with the image (nanobanana, stability) or the job id
\* (midjourney), a 200 without artifacts (stability), another status, or an
\* exception (network, JSON, missing key, base64).
Respond(t) ==
  /\ tpc[t] = "post"
  /\ \E out \in PostOutcomes(tservice[t]) :
       IF out = "ok" /\ tservice[t] = "midjourney"
       THEN /\ tpc' = [tpc EXCEPT ![t] = "polling"]
            /\ UNCHANGED <<tresult, fate, provided, diskVars>>
       ELSE IF out = "ok"
       THEN \E data \in Data, disk \in DiskOutcomes : SaveAndReturn(t, data, disk)
       ELSE /\ Return(t, ProviderCatch(IF out = "exception" THEN Exc("ClientError") ELSE None),
                      "provider_failed", start_time[t])
            /\ UNCHANGED <<provided, diskVars>>
  /\ UNCHANGED <<idVars, now, rlVars, callerVars, start_time, wake, attempts, tservice,
                 pollHistory, batchVars>>

\* PollStep without the break of line 316.
PollStepNoBreak(status, image) ==
  IF status = "completed" /\ image = "ok" THEN "return" ELSE "continue"

\* PollStep leaving the loop when a poll raises.
PollStepStopsOnError(status, image) ==
  IF status = "completed"
  THEN IF image = "ok" THEN "return" ELSE "continue"
  ELSE IF status \in {"failed", "exception"} THEN "break"
  ELSE "continue"

\* One iteration of the loop of _poll_midjourney_job, lines 298-318, after its
\* sleep: what the status poll and the image download make of it.
PollStep(status, image) ==
  IF status = "completed"
  THEN IF image = "ok" THEN "return" ELSE "continue"
  ELSE IF status = "failed" THEN "break"
  ELSE "continue"

\* The downloads a status poll can lead to: only a "completed" one fetches
\* the image.
ImagesFor(status) == IF status = "completed" THEN ImageOutcomes ELSE {"none"}

\* Task t runs one iteration of the polling loop, in which the status poll
\* and the download answer status and image, and what follows the loop when
\* it ends: lines 283-292 and 298-320.  The loop's counter ends with the loop.
Poll(t, status, image) ==
  /\ tpc[t] = "polling"
  /\ attempts[t] < MaxPolls
  /\ LET step == PollStep(status, image)
     IN IF step = "return"
        THEN /\ attempts' = [attempts EXCEPT ![t] = 0]
             /\ \E data \in Data :
                  IF data # <<>>
                  THEN \E disk \in DiskOutcomes : SaveAndReturn(t, data, disk)
                  ELSE /\ Return(t, None, "provider_failed", start_time[t])
                       /\ UNCHANGED <<provided, diskVars>>
        ELSE IF step = "break"
        THEN /\ attempts' = [attempts EXCEPT ![t] = 0]
             /\ Return(t, None, "provider_failed", start_time[t])
             /\ UNCHANGED <<provided, diskVars>>
        ELSE IF attempts[t] + 1 = MaxPolls
        THEN /\ attempts' = [attempts EXCEPT ![t] = 0]
             /\ Return(t, None, "timeout", start_time[t])
             /\ UNCHANGED <<provided, diskVars>>
        ELSE /\ attempts' = [attempts EXCEPT ![t] = @ + 1]
             /\ UNCHANGED <<tpc, tresult, fate, provided, diskVars>>
  /\ UNCHANGED <<idVars, now, rlVars, callerVars, start_time, wake, tservice, batchVars>>

\* The history of the polls of SpecPoll.
RecordPoll(t, status) ==
  /\ polls' = [polls EXCEPT ![t] = @ + 1]
  /\ first_status' = [first_status EXCEPT ![t] = IF polls[t] = 0 THEN status ELSE @]
  /\ last_status' = [last_status EXCEPT ![t] = status]

\* ---- AssetGenerator: the batch

\* generate_asset_batch, lines 115-118: one task per request.
CreateTasks ==
  /\ bpc = "constructed"
  /\ bpc' = "gathering"
  /\ tpc' = [t \in Tasks |-> "created"]
  /\ UNCHANGED <<idVars, now, rlVars, callerVars, start_time, wake, attempts, tresult,
                 tservice, provided, fate, pollHistory, diskVars, requests,
                 successful_assets, generated_assets, report>>

\* Successful keeping the assets only.
SuccessfulAssetsOnly(results) == SelectSeq(results, LAMBDA r : IsAsset(r))

\* Lines 122-127: every result that is no exception is appended.
Successful(results) == SelectSeq(results, LAMBDA r : r.kind # "exception")

\* Gather not waiting for every task: it returns once one task is done, with
\* the results the tasks have by then.
GatherFirstCompleted ==
  /\ bpc = "gathering"
  /\ \E t \in Tasks : tpc[t] = "done"
  /\ successful_assets' = Successful(tresult)
  /\ generated_assets' = generated_assets \o Successful(tresult)
  /\ bpc' = "returned"
  /\ UNCHANGED <<idVars, now, rlVars, callerVars, taskVars, pollHistory, diskVars, requests, report>>

\* generate_asset_batch, lines 120-130: gather(return_exceptions=True) has
\* every task's result, the successes are collected and returned.
Gather ==
  /\ bpc = "gathering"
  /\ \A t \in Tasks : tpc[t] = "done"
  /\ successful_assets' = Successful(tresult)
  /\ generated_assets' = generated_assets \o Successful(tresult)
  /\ bpc' = "returned"
  /\ UNCHANGED <<idVars, now, rlVars, callerVars, taskVars, pollHistory, diskVars, requests, report>>

\* save_generation_report, lines 423-437.
Report(assets) ==
  [total_assets |-> Len(assets),
   successful_generations |-> Len(SelectSeq(assets, LAMBDA a : a # None)),
   assets |-> SelectSeq(assets, LAMBDA a : a # None)]

\* main, lines 506-512: the report is written after the batch returned.
SaveReport ==
  /\ bpc = "returned"
  /\ report' = <<Report(generated_assets)>>
  /\ bpc' = "reported"
  /\ UNCHANGED <<idVars, now, rlVars, callerVars, taskVars, pollHistory, diskVars, requests,
                 successful_assets, generated_assets>>

\* load_asset_requests, lines 466-471: AssetRequest(**item) for every item of
\* the configuration file.  The dataclass (lines 58-75) has no __post_init__:
\* each field takes the item's value as it is, whatever the type says.
load_asset_requests(items) ==
  [i \in DOMAIN items |->
     Request(items[i].prompt, items[i].type, items[i].category, items[i].style)]

\* AssetGenerator(project_root), and the requests main loaded.
Constructed(reqs) ==
  /\ now = 0
  /\ requests_per_minute = [s \in Services |-> rate_limit(s)]
  /\ rl_requests = [s \in Services |-> <<>>]
  /\ NoCallers
  /\ requests = reqs
  /\ bpc = "constructed"
  /\ tpc = [t \in DOMAIN reqs |-> "none"]
  /\ start_time = [t \in DOMAIN reqs |-> 0]
  /\ wake = [t \in DOMAIN reqs |-> 0]
  /\ attempts = [t \in DOMAIN reqs |-> 0]
  /\ tresult = [t \in DOMAIN reqs |-> None]
  /\ tservice = [t \in DOMAIN reqs |-> "none"]
  /\ provided = [t \in DOMAIN reqs |-> <<>>]
  /\ fate = [t \in DOMAIN reqs |-> "pending"]
  /\ polls = [t \in DOMAIN reqs |-> 0]
  /\ first_status = [t \in DOMAIN reqs |-> "none"]
  /\ last_status = [t \in DOMAIN reqs |-> "none"]
  /\ successful_assets = <<>>
  /\ generated_assets = <<>>
  /\ report = <<>>
  /\ files = {}
  /\ sidecars = {}
  /\ id_calls = <<>>

\* A batch of one request of any (type, category), or of up to MaxTasks
\* requests.
Init ==
  \E items \in [1..1 -> AllRequests] \cup UNION {[1..n -> BatchRequests] : n \in 2..MaxTasks} :
    Constructed(load_asset_requests(items))

Next ==
  \/ CreateTasks
  \/ \E t \in Tasks : StartTask(t)
  \/ \E t \in Tasks : Respond(t)
  \/ \E t \in Tasks, status \in PollOutcomes :
       \E image \in ImagesFor(status) : Poll(t, status, image) /\ UNCHANGED pollHistory
  \/ Gather
  \/ SaveReport

Spec == Init /\ [][Next]_vars

\* A batch of one request that the queued provider (midjourney) serves, with
\* the history of its polls.
InitPoll ==
  \E items \in [1..1 -> {r \in AllRequests : ProviderOf(r) = "midjourney"}] :
    Constructed(load_asset_requests(items))

NextPoll ==
  \/ CreateTasks
  \/ \E t \in Tasks : StartTask(t)
  \/ \E t \in Tasks : Respond(t)
  \/ \E t \in Tasks, status \in PollOutcomes :
       \E image \in ImagesFor(status) : Poll(t, status, image) /\ RecordPoll(t, status)
  \/ Gather
  \/ SaveReport

SpecPoll == InitPoll /\ [][NextPoll]_vars

\* ---- _generate_asset_id on its own

\* The requests _generate_asset_id is called with: two values of each of the
\* four fields it reads, among them texts that hold the separator of the
\* content string.
IdRequests ==
  { Request(p, ty, c, st) : p \in {"neon", "neon-2d"}, ty \in {"2d", "3d"},
                            c \in {"ui", "2d-ui"}, st \in {"cyberpunk", "retro"} }

\* _generate_asset_id(request) is called, at the second the clock shows.
GenerateAssetId(request) ==
  /\ Len(id_calls) < MaxIdCalls
  /\ id_calls' = Append(id_calls, [request |-> request, second |-> now,
                                   id |-> generate_asset_id(request, now)])
  /\ UNCHANGED <<now, rlVars, callerVars, taskVars, pollHistory, diskVars, batchVars>>

InitId ==
  /\ now = 0
  /\ requests_per_minute = [s \in Services |-> rate_limit(s)]
  /\ rl_requests = [s \in Services |-> <<>>]
  /\ NoCallers
  /\ NoBatch

NextId ==
  \/ \E request \in IdRequests : GenerateAssetId(request)
  \/ Tick(IdTicks * TickStep)

SpecId == InitId /\ [][NextId]_vars

\* ---- a batch while the clock runs

\* The requests of a batch of SpecClock: one for an immediate provider, one
\* for the queued provider, one of a type without provider.
ClockRequests ==
  { Request("neon alley", "2d", "sprite", "cyberpunk"),
    Request("neon alley", "2d", "ui", "cyberpunk"),
    Request("neon alley", "audio", "sfx", "cyberpunk") }

\* A batch of one request, or of up to MaxClockTasks requests none of which
\* is queued.
ClockBatches ==
  [1..1 -> ClockRequests]
    \cup UNION {[1..n -> {r \in ClockRequests : ProviderOf(r) # "midjourney"}] :
                  n \in 2..MaxClockTasks}

\* A generator with the quotas of CONFIG, or with a CONFIG that gives every
\* service the smallest quota, 1.
InitClock ==
  \E items \in ClockBatches :
    \E quotas \in {[s \in Services |-> rate_limit(s)]}
                    \cup {[s \in Services |-> 1]} :
      /\ now = 0
      /\ requests_per_minute = quotas
      /\ rl_requests = [s \in Services |-> <<>>]
      /\ NoCallers
      /\ requests = load_asset_requests(items)
      /\ bpc = "constructed"
      /\ tpc = [t \in DOMAIN items |-> "none"]
      /\ start_time = [t \in DOMAIN items |-> 0]
      /\ wake = [t \in DOMAIN items |-> 0]
      /\ attempts = [t \in DOMAIN items |-> 0]
      /\ tresult = [t \in DOMAIN items |-> None]
      /\ tservice = [t \in DOMAIN items |-> "none"]
      /\ provided = [t \in DOMAIN items |-> <<>>]
      /\ fate = [t \in DOMAIN items |-> "pending"]
      /\ polls = [t \in DOMAIN items |-> 0]
      /\ first_status = [t \in DOMAIN items |-> "none"]
      /\ last_status = [t \in DOMAIN items |-> "none"]
      /\ successful_assets = <<>>
      /\ generated_assets = <<>>
      /\ report = <<>>
      /\ files = {}
      /\ sidecars = {}
      /\ id_calls = <<>>

PollOnce ==
  \E t \in Tasks, status \in PollOutcomes :
    \E image \in ImagesFor(status) : Poll(t, status, image) /\ UNCHANGED pollHistory

NextClock ==
  \/ CreateTasks
  \/ \E t \in Tasks : StartTask(t)
  \/ \E t \in Tasks : ResumeTask(t)
  \/ \E t \in Tasks : Respond(t)
  \/ PollOnce
  \/ Gather
  \/ SaveReport
  \/ Tick(ClockTicks * TickStep)

\* The event loop runs every task that can run, every provider call returns,
\* and time passes.
FairClock ==
  /\ WF_vars(CreateTasks)
  /\ WF_vars(\E t \in Tasks : StartTask(t))
  /\ WF_vars(\E t \in Tasks : ResumeTask(t))
  /\ WF_vars(\E t \in Tasks : Respond(t))
  /\ WF_vars(PollOnce)
  /\ WF_vars(Gather)
  /\ WF_vars(SaveReport)
  /\ WF_vars(Tick(ClockTicks * TickStep))

SpecClock == InitClock /\ [][NextClock]_vars /\ FairClock

\* With the quotas of CONFIG no task of a batch of Spec or SpecPoll finds a
\* limiter full.
NoTaskSleepsInLimiter == \A t \in Tasks : tpc[t] # "rl_sleep"

\* ---- claims

\* Admissions of the shared limiter within the 60 seconds ending at time t.
AdmittedInWindow(t) ==
  Cardinality({i \in DOMAIN admitted : t - Window < admitted[i] /\ admitted[i] <= t})

\* C1: at most Q callers return from wait() within any rolling 60-second
\* interval, for a shared RateLimiter(Q) and any interleaving of its callers.
C1_RollingWindowQuota ==
  \A i \in DOMAIN admitted :
    AdmittedInWindow(admitted[i]) <= requests_per_minute[RLService]

Returned == bpc \in {"returned", "reported"}

Failures == {"provider_failed", "timeout", "disk_failed", "metadata_failed", "unknown_type"}

Count(S) == Cardinality(S)

\* C2: a failing item never keeps a sibling from its own resolution and
\* never makes the batch raise: no exception leaves a task, the step in which
\* an item fails changes nothing of any other item, and when the batch
\* returns every item is resolved, as an asset exactly when its own provider
\* and its own save succeeded.
C2_FailureIsolated ==
  /\ [](\A t \in Tasks : tresult[t].kind \in {"asset", "None"})
  /\ [](Returned =>
          \A t \in Tasks : tpc[t] = "done" /\ (IsAsset(tresult[t]) <=> fate[t] = "success"))
  /\ [][\A t \in Tasks :
          (fate[t] = "pending" /\ fate'[t] \in Failures) =>
            \A u \in Tasks \ {t} :
              tpc'[u] = tpc[u] /\ tresult'[u] = tresult[u] /\ fate'[u] = fate[u]]_vars

\* C2's case: the batch returned, one item failed (its provider, its save,
\* its type) and a sibling succeeded.
C2_Witness ==
  /\ Returned
  /\ \E t, u \in Tasks : fate[t] \in Failures /\ fate[u] = "success" /\ IsAsset(tresult[u])

\* C3: the list generate_asset_batch returns has N - K - M elements, each a
\* GeneratedAsset, for N requests of which K failed and M were skipped.
C3_ReturnsSuccessesOnly ==
  Returned =>
    /\ Len(successful_assets)
         = Len(requests) - Count({t \in Tasks : fate[t] \in Failures})
                         - Count({t \in Tasks : fate[t] = "skipped"})
    /\ \A i \in DOMAIN successful_assets : IsAsset(successful_assets[i])

\* C4: the report of one batch of N requests has total_assets = N,
\* successful_generations = the number of items that produced an asset, and
\* that many entries in its asset list.
C4_ReportCounts ==
  bpc = "reported" =>
    /\ Len(report) = 1
    /\ report[1].total_assets = Len(requests)
    /\ report[1].successful_generations = Count({t \in Tasks : IsAsset(tresult[t])})
    /\ Len(report[1].assets) = Count({t \in Tasks : IsAsset(tresult[t])})
    /\ \A i \in DOMAIN report[1].assets : IsAsset(report[1].assets[i])

\* C4's case: a report of a batch with a success and an item without asset.
C4_Witness ==
  /\ bpc = "reported"
  /\ \E t, u \in Tasks : IsAsset(tresult[t]) /\ ~IsAsset(tresult[u]) /\ tpc[u] = "done"

\* C5: the result list is assembled and generated_assets extended only after
\* every task of the batch has resolved.
C5_JoinBeforeAggregate ==
  (Returned \/ successful_assets # <<>> \/ generated_assets # <<>>) =>
    \A t \in Tasks : tpc[t] = "done"

\* C5's case: a batch of several requests has returned its results.
C5_Witness ==
  /\ Returned
  /\ Len(requests) >= 2
  /\ Len(generated_assets) >= 2

\* The provider the routing policy names for (type, category).
DocumentedProvider(type, category) ==
  CASE type = "2d" /\ category \in {"sprite", "character"} -> "nanobanana"
    [] type = "2d" /\ category \in {"background", "environment"} -> "stability"
    [] type = "2d" /\ category \in {"ui", "icon"} -> "midjourney"
    [] type = "2d" -> "stability"
    [] type = "3d" -> "none"
    [] type = "audio" -> "elevenlabs"

Dispatched(t) == tpc[t] \notin {"none", "created"}

\* C6: the provider a dispatched request of type 2d, 3d or audio went to is
\* the one the policy names for its (type, category), and two requests with
\* the same (type, category) went to the same provider.
C6_RoutingTable ==
  /\ \A t \in Tasks :
       (Dispatched(t) /\ requests[t].type \in {"2d", "3d", "audio"}) =>
         tservice[t] = DocumentedProvider(requests[t].type, requests[t].category)
  /\ \A t, u \in Tasks :
       (/\ Dispatched(t)
        /\ Dispatched(u)
        /\ requests[t].type = requests[u].type
        /\ requests[t].category = requests[u].category) => tservice[t] = tservice[u]

\* C6's case: a 2d request of a category outside the table was dispatched, to
\* the fallback.
C6_Witness ==
  \E t \in Tasks :
    /\ Dispatched(t)
    /\ requests[t].type = "2d"
    /\ requests[t].category = "sfx"
    /\ tservice[t] = "stability"

Unimplemented(r) == r.type \in {"audio", "3d"}

C8_FailedStopsPolling ==
  \A t \in Tasks :
    /\ last_status[t] = "failed" =>
         tpc[t] = "done" /\ tresult[t] = None /\ fate[t] = "provider_failed"
    /\ first_status[t] = "failed" => polls[t] = 1

\* C8's case: the batch returned after a job's first poll said "failed".
C8_Witness ==
  /\ Returned
  /\ \E t \in Tasks : first_status[t] = "failed" /\ polls[t] = 1

\* C9: a job issues at most 30 status polls; after the 30th the task has
\* ended, and a job none of whose 30 polls ended it has no asset and has
\* saved nothing.
C9_PollBudget ==
  \A t \in Tasks :
    /\ polls[t] <= 30
    /\ polls[t] = 30 => tpc[t] = "done"
    /\ fate[t] = "timeout" =>
         /\ polls[t] = 30
         /\ tpc[t] = "done"
         /\ tresult[t] = None
         /\ provided[t] = <<>>

\* C9's case: a job was polled 30 times without an end and the batch returned.
C9_Witness ==
  /\ Returned
  /\ \E t \in Tasks : fate[t] = "timeout" /\ polls[t] = 30 /\ last_status[t] = "pending"

\* C10: the asset _save_asset returns has the SHA-256 digest and the length
\* of exactly the bytes passed in, and when it returns the file at its
\* file_path holds exactly those bytes.
C10_SaveRoundTrip ==
  /\ [](\A t \in Tasks :
          IsAsset(tresult[t]) =>
            /\ Len(provided[t]) = 1
            /\ tresult[t].checksum = Sha256(provided[t][1])
            /\ tresult[t].file_size = Len(provided[t][1]))
  /\ [][\A t \in Tasks :
          (~IsAsset(tresult[t]) /\ IsAsset(tresult'[t])) =>
            /\ Exists(files', tresult'[t].file_path)
            /\ ReadFile(files', tresult'[t].file_path) = provided'[t][1]]_vars

\* C10's case: two tasks saved different bytes, and both got an asset.
C10_Witness ==
  \E t, u \in Tasks :
    /\ IsAsset(tresult[t])
    /\ IsAsset(tresult[u])
    /\ provided[t] = << <<137, 80>> >>
    /\ provided[u] = << <<>> >>

MetadataPath(asset_id) == Path(output_dirs("metadata"), asset_id, "json")

\* C11: every item that resolved as an asset has its artifact file and its
\* metadata file on disk; an item whose artifact was written but whose metadata
\* write failed has no asset, is None in the returned list and is not counted
\* or listed by the report.
C11_SuccessHasBothFiles ==
  /\ \A t \in Tasks :
       IsAsset(tresult[t]) =>
         /\ Exists(files, tresult[t].file_path)
         /\ Exists(sidecars, MetadataPath(tresult[t].id))
  /\ \A t \in Tasks :
       fate[t] = "metadata_failed" =>
         /\ tpc[t] = "done"
         /\ tresult[t] = None
         /\ Returned => successful_assets[t] = None
  /\ bpc = "reported" =>
       /\ report[1].successful_generations = Count({t \in Tasks : fate[t] = "success"})
       /\ \A i \in DOMAIN report[1].assets :
            /\ Exists(files, report[1].assets[i].file_path)
            /\ Exists(sidecars, MetadataPath(report[1].assets[i].id))

\* C11's case: the report is written, one item's metadata write failed after
\* its artifact was written (the artifact is on disk, no metadata file beside
\* it), and a sibling succeeded.
C11_Witness ==
  /\ bpc = "reported"
  /\ \E t, u \in Tasks :
       /\ fate[t] = "metadata_failed"
       /\ Exists(files, Path(output_dirs(requests[t].type),
                             generate_asset_id(requests[t], now), "png"))
       /\ ~Exists(sidecars, MetadataPath(generate_asset_id(requests[t], now)))
       /\ fate[u] = "success"

IdFields == {"prompt", "type", "category", "style"}

\* C12: two calls of _generate_asset_id within the same second return the
\* same id for the same (prompt, type, category, style), and different ids
\* for requests that differ in exactly one of the four fields.
C12_IdDeterministicPerSecond ==
  \A i, j \in DOMAIN id_calls :
    id_calls[i].second = id_calls[j].second =>
      /\ id_calls[i].request = id_calls[j].request => id_calls[i].id = id_calls[j].id
      /\ Cardinality({f \in IdFields : id_calls[i].request[f] # id_calls[j].request[f]}) = 1
           => id_calls[i].id # id_calls[j].id

\* C12's case: two calls in the same second, after the clock moved, with
\* requests that differ in the style only.
C12_Witness ==
  \E i, j \in DOMAIN id_calls :
    /\ id_calls[i].second = id_calls[j].second
    /\ id_calls[i].second > 0
    /\ {f \in IdFields : id_calls[i].request[f] # id_calls[j].request[f]} = {"style"}
    /\ id_calls[i].id # id_calls[j].id

\* C13: a request whose type is none of '2d', '3d', 'audio' is rejected when
\* the requests are loaded: no task is ever dispatched for one, and the
\* unknown-type branch of generate_single_asset is never taken.
C13_UnknownTypeRejectedAtLoad ==
  \A t \in Tasks :
    /\ Dispatched(t) => requests[t].type \in {"2d", "3d", "audio"}
    /\ fate[t] # "unknown_type"

\* C14: no RateLimiter with a quota of 0 exists, so no call of wait() is
\* ever evaluated against a zero quota.
C14_ZeroQuotaRejected ==
  \A c \in DOMAIN cpc :
    cpc[c] # "idle" => requests_per_minute[RLService] > 0

\* C15: the timestamp wait() appends to the limiter's list is the time at
\* which the caller is admitted, also when the caller was suspended first.
C15_AppendsAdmissionTime ==
  [][\A c \in DOMAIN cpc :
       (cpc[c] # "admitted" /\ cpc'[c] = "admitted") =>
         /\ Len(rl_requests'[RLService]) > 0
         /\ rl_requests'[RLService][Len(rl_requests'[RLService])] = now']_vars

\* C16: the step in which an audio or 3d item is dispatched and skipped
\* leaves every limiter as it was: no timestamp is added, and the task is not
\* suspended by a limiter.
C16_SkipLeavesLimitersAlone ==
  [][\A t \in Tasks :
       (Unimplemented(requests[t]) /\ tpc[t] = "created" /\ tpc'[t] # "created") =>
         /\ rl_requests' = rl_requests
         /\ tpc'[t] = "done"]_vars

\* C17: a status poll that raises, that answers with another HTTP status than
\* 200, or that reports a status other than "completed" and "failed" uses up
\* one attempt and leaves the job polling while attempts remain; a job that
\* was polled has ended only after a "completed" or a "failed" poll or after
\* its 30th poll.
C17_TransientPollGoesOn ==
  \A t \in Tasks :
    /\ (last_status[t] \in {"pending", "http_error", "exception"} /\ polls[t] < 30) =>
         /\ tpc[t] = "polling"
         /\ attempts[t] = polls[t]
    /\ (tpc[t] = "done" /\ polls[t] > 0) =>
         (last_status[t] \in {"completed", "failed"} \/ polls[t] = 30)

\* C17's case: a job's first poll raised, a later poll found it completed,
\* and the job ended with an asset.
C17_Witness ==
  \E t \in Tasks :
    /\ first_status[t] = "exception"
    /\ polls[t] >= 2
    /\ last_status[t] = "completed"
    /\ fate[t] = "success"

\* C18: the assets of two items of one batch have different ids, different
\* artifact paths and different metadata paths.
C18_IdsPairwiseDistinct ==
  \A t, u \in Tasks :
    (t # u /\ IsAsset(tresult[t]) /\ IsAsset(tresult[u])) =>
      /\ tresult[t].id # tresult[u].id
      /\ tresult[t].file_path # tresult[u].file_path
      /\ MetadataPath(tresult[t].id) # MetadataPath(tresult[u].id)

\* C19: every asset a task returned, and every asset in the returned list or
\* in generated_assets, has as generation_time the time from its task's start
\* to its completion, and the lists do not change once they are filled.
C19_GenerationTimeSet ==
  /\ [](\A t \in Tasks :
          IsAsset(tresult[t]) =>
            tresult[t].generation_time = tresult[t].created_at - start_time[t])
  /\ [](\A i \in DOMAIN successful_assets :
          IsAsset(successful_assets[i]) => successful_assets[i] = tresult[i])
  /\ [](\A i \in DOMAIN generated_assets :
          IsAsset(generated_assets[i]) => generated_assets[i] = tresult[i])
  /\ [][Returned =>
          /\ successful_assets' = successful_assets
          /\ generated_assets' = generated_assets
          /\ tresult' = tresult]_vars

\* C19's case: the batch returned an asset whose generation took time.
C19_Witness ==
  /\ Returned
  /\ \E i \in DOMAIN generated_assets :
       /\ IsAsset(generated_assets[i])
       /\ generated_assets[i].generation_time > 0
       /\ generated_assets[i] = successful_assets[i]

\* C20: under fair scheduling every item of a batch is eventually resolved
\* and generate_asset_batch eventually returns.
C20_BatchTerminates ==
  <>(Returned /\ \A t \in Tasks : tpc[t] = "done" /\ fate[t] # "pending")

\* C20's case: a task that was suspended in wait() got on, and the batch
\* returned with every item resolved.
C20_Witness ==
  /\ Returned
  /\ \E t \in Tasks : wake[t] > start_time[t] /\ tpc[t] = "done" /\ fate[t] = "success"

=============================================================================
